---- MODULE Spec2Model ----
(***************************************************************************)
(* A model of the chat-export bot: the export parser (data_parser.py), the *)
(* aggregation session (models.py) and the bot handlers (bot_handler.py).  *)
(*                                                                         *)
(* Python strings are sequences of code points (Nat), so that lower(),     *)
(* startswith(), endswith(), substring search, the two regular expressions *)
(* and sorted() are computed and not assumed.  Python's None is the value  *)
(* None below; a dict is a sequence of records with distinct identifiers   *)
(* (a dict keeps insertion order).                                         *)
(***************************************************************************)
EXTENDS Integers, Sequences, FiniteSets, TLC

\* ------------------------------------------------------------------------
\* Strings
\* ------------------------------------------------------------------------

\* Python's None where a str is expected (no code point is negative).
None == <<-1>>

\* bool(value) of an optional str: None and "" are falsy.
Truthy(s) == s # None /\ s # <<>>

\* a or b
Or(a, b) == IF Truthy(a) THEN a ELSE b

\* str.lower() of one code point: ASCII A-Z, Cyrillic capitals, and the letter Yo.
LowerChar(c) ==
    IF c \in 65..90 THEN c + 32
    ELSE IF c \in 1040..1071 THEN c + 32
    ELSE IF c = 1025 THEN 1105
    ELSE c

\* str.lower()
Lower(s) == [i \in 1..Len(s) |-> LowerChar(s[i])]

\* str.startswith(prefix)
StartsWith(s, p) == Len(p) <= Len(s) /\ SubSeq(s, 1, Len(p)) = p

\* str.endswith(suffix)
EndsWith(s, p) == Len(p) <= Len(s) /\ SubSeq(s, Len(s) - Len(p) + 1, Len(s)) = p

\* needle in haystack
Contains(s, p) ==
    \E i \in 1..(Len(s) - Len(p) + 1) : SubSeq(s, i, i + Len(p) - 1) = p

\* a < b on str: lexicographic on code points.
StrLess(a, b) ==
    \E k \in 1..(Len(b)) :
        /\ k <= Len(a) + 1
        /\ \A j \in 1..(k - 1) : a[j] = b[j]
        /\ (k = Len(a) + 1 \/ a[k] < b[k])

\* Whitespace that str.strip() removes (space, tab, newline, carriage return).
IsSpace(c) == c \in {32, 9, 10, 13}

RECURSIVE LStrip(_)
LStrip(s) == IF s # <<>> /\ IsSpace(Head(s)) THEN LStrip(Tail(s)) ELSE s

RECURSIVE RStrip(_)
RStrip(s) ==
    IF s # <<>> /\ IsSpace(s[Len(s)]) THEN RStrip(SubSeq(s, 1, Len(s) - 1)) ELSE s

\* str.strip()
Strip(s) == RStrip(LStrip(s))

\* sorted(handles): ascending by StrLess.
RECURSIVE Sorted(_)
Sorted(S) ==
    IF S = {} THEN <<>>
    ELSE LET m == CHOOSE x \in S : \A y \in S \ {x} : StrLess(x, y)
         IN  <<m>> \o Sorted(S \ {m})

\* " ".join(fragments)
RECURSIVE Join(_)
Join(fs) ==
    IF fs = <<>> THEN <<>>
    ELSE IF Len(fs) = 1 THEN fs[1]
    ELSE fs[1] \o <<32>> \o Join(Tail(fs))

Range(f) == {f[i] : i \in DOMAIN f}

\* ------------------------------------------------------------------------
\* data_parser.py: patterns and helpers
\* ------------------------------------------------------------------------

\* [A-Za-z0-9_]
IsWord(c) == c \in (48..57) \cup (65..90) \cup (97..122) \cup {95}

IsDigit(c) == c \in 48..57

\* Length of the longest run of [A-Za-z0-9_] starting at position i.
RECURSIVE WordRun(_, _)
WordRun(s, i) ==
    IF i <= Len(s) /\ IsWord(s[i]) THEN 1 + WordRun(s, i + 1) ELSE 0

\* MENTION_PATTERN.findall(text): @ followed by 5 or more word characters,
\* leftmost, greedy, non-overlapping; the captured groups in order.
RECURSIVE MentionFindall(_, _)
MentionFindall(s, i) ==
    IF i > Len(s) THEN <<>>
    ELSE LET run == WordRun(s, i + 1)
         IN  IF s[i] = 64 /\ run >= 5
             THEN <<SubSeq(s, i + 1, i + run)>> \o MentionFindall(s, i + 1 + run)
             ELSE MentionFindall(s, i + 1)

MENTION_PATTERN(s) == MentionFindall(s, 1)

\* "t.me/"
TME == <<116, 46, 109, 101, 47>>

\* CHANNEL_LINK_PATTERN.findall(text): (?:https?://)?t\.me/([A-Za-z0-9_]+),
\* IGNORECASE; the optional scheme never changes the captured group.
RECURSIVE ChannelFindall(_, _)
ChannelFindall(s, i) ==
    IF i + 5 > Len(s) THEN <<>>
    ELSE LET run == WordRun(s, i + 5)
         IN  IF Lower(SubSeq(s, i, i + 4)) = TME /\ run >= 1
             THEN <<SubSeq(s, i + 5, i + 4 + run)>> \o ChannelFindall(s, i + 5 + run)
             ELSE ChannelFindall(s, i + 1)

CHANNEL_LINK_PATTERN(s) == ChannelFindall(s, 1)

\* "deleted account", and the two Russian spellings of "deleted".
DELETED_TOKENS ==
    { <<100, 101, 108, 101, 116, 101, 100, 32, 97, 99, 99, 111, 117, 110, 116>>,
      <<1091, 1076, 1072, 1083, 1105, 1085, 1085, 1099, 1081>>,
      <<1091, 1076, 1072, 1083, 1077, 1085, 1085, 1099, 1081>> }

\* DataParser._is_deleted
_is_deleted(name) ==
    IF ~Truthy(name) THEN FALSE
    ELSE \E token \in DELETED_TOKENS : Contains(Lower(name), token)

\* DataParser._normalize_username
_normalize_username(value) ==
    IF ~Truthy(value) THEN None
    ELSE LET v == Strip(value)
         IN  IF v = <<>> THEN None
             ELSE IF ~StartsWith(v, <<64>>) THEN <<64>> \o v
             ELSE v

\* DataParser._extract_username
_extract_username(message) ==
    _normalize_username(Or(message.from_username, message.username))

\* _build_identifier with the fallback id tried before the username.
_build_identifier_fallback_first(username, fallback, full_name) ==
    IF Truthy(fallback) THEN fallback \o <<58>> \o Lower(Or(full_name, <<>>))
    ELSE IF Truthy(username) THEN Lower(username)
    ELSE Lower(Or(full_name, <<117, 110, 107, 110, 111, 119, 110>>))

\* DataParser._build_identifier
_build_identifier(username, fallback, full_name) ==
    IF Truthy(username) THEN Lower(username)
    ELSE IF Truthy(fallback) THEN fallback \o <<58>> \o Lower(Or(full_name, <<>>))
    ELSE Lower(Or(full_name, <<117, 110, 107, 110, 111, 119, 110>>))

\* DataParser._stringify_text: text is a str, a list of str / dict chunks, or
\* anything else (kind "none").
_stringify_text(message) ==
    LET text == message.text
    IN  IF text.kind = "str" THEN text.s
        ELSE IF text.kind = "list"
        THEN Join([i \in 1..Len(text.chunks) |-> text.chunks[i].s])
        ELSE <<>>

\* DataParser._extract_mentions: the pair (mentions, channels) of one text.
_extract_mentions(text) ==
    [ mentions |-> {<<64>> \o Lower(m) : m \in Range(MENTION_PATTERN(text))},
      channels |-> {TME \o Lower(m) : m \in Range(CHANNEL_LINK_PATTERN(text))} ]

\* DataParser._handle_from_href
_handle_from_href(href) ==
    IF ~Truthy(href) THEN None
    ELSE IF StartsWith(href, <<64>>) THEN href
    ELSE LET found == CHANNEL_LINK_PATTERN(href)
         IN  IF found # <<>> THEN TME \o Lower(found[1]) ELSE None

\* DataParser._extract_entities: the handles yielded, in order.
RECURSIVE EntityHandles(_)
EntityHandles(entities) ==
    IF entities = <<>> THEN <<>>
    ELSE LET entity == Head(entities)
             text == Or(entity.text, <<>>)
             handle == _handle_from_href(Or(entity.href, entity.url))
         IN  (IF StartsWith(text, <<64>>) THEN <<text>>
              ELSE IF Truthy(handle) THEN <<handle>>
              ELSE <<>>) \o EntityHandles(Tail(entities))

_extract_entities(message) ==
    EntityHandles(IF message.text_entities # <<>> THEN message.text_entities
                  ELSE message.entities)

\* Whether s has the shape pat: 0 stands for one decimal digit, any other
\* number for that code point.
MatchesShape(s, pat) ==
    /\ Len(s) = Len(pat)
    /\ \A i \in 1..Len(pat) : IF pat[i] = 0 THEN IsDigit(s[i]) ELSE s[i] = pat[i]

\* The two-digit number at positions i, i+1.
Num2(s, i) == (s[i] - 48) * 10 + (s[i + 1] - 48)

\* Field ranges datetime accepts (the length of each month is not modelled:
\* the inputs of the model carry no day above 28).
ValidFields(year, month, day, hour, minute, second) ==
    /\ year >= 1
    /\ month \in 1..12
    /\ day \in 1..31
    /\ hour \in 0..23
    /\ minute \in 0..59
    /\ second \in 0..59

\* datetime.fromisoformat on "YYYY-MM-DDTHH:MM:SS" (separator T or space).
IsIsoDateTime(s) ==
    /\ \/ MatchesShape(s, <<0, 0, 0, 0, 45, 0, 0, 45, 0, 0, 84, 0, 0, 58, 0, 0, 58, 0, 0>>)
       \/ MatchesShape(s, <<0, 0, 0, 0, 45, 0, 0, 45, 0, 0, 32, 0, 0, 58, 0, 0, 58, 0, 0>>)
    /\ ValidFields(Num2(s, 1) * 100 + Num2(s, 3), Num2(s, 6), Num2(s, 9),
                   Num2(s, 12), Num2(s, 15), Num2(s, 18))

\* datetime.strptime(raw, "%d.%m.%Y %H:%M:%S") on "DD.MM.YYYY HH:MM:SS".
IsDmyDateTime(s) ==
    /\ MatchesShape(s, <<0, 0, 46, 0, 0, 46, 0, 0, 0, 0, 32, 0, 0, 58, 0, 0, 58, 0, 0>>)
    /\ ValidFields(Num2(s, 7) * 100 + Num2(s, 9), Num2(s, 4), Num2(s, 1),
                   Num2(s, 12), Num2(s, 15), Num2(s, 18))

\* A UTC offset "+HH:MM" or "-HH:MM" as datetime.fromisoformat accepts it.
IsUtcOffset(s) ==
    /\ Len(s) = 6
    /\ s[1] \in {43, 45}
    /\ MatchesShape(SubSeq(s, 2, 6), <<0, 0, 58, 0, 0>>)
    /\ Num2(s, 2) \in 0..23
    /\ Num2(s, 5) \in 0..59

\* DataParser._safe_iso_date: the isoformat() text of the parsed datetime, or
\* None.  A trailing Z is replaced by +00:00 before fromisoformat, and
\* isoformat() of an aware datetime keeps its offset.
_safe_iso_date(raw0) ==
    IF ~Truthy(raw0) THEN None
    ELSE LET raw == Strip(raw0)
             n == Len(raw)
         IN  IF raw = <<>> THEN None
             ELSE IF IsIsoDateTime(raw)
             THEN SubSeq(raw, 1, 10) \o <<84>> \o SubSeq(raw, 12, 19)
             ELSE IF n = 20 /\ raw[n] = 90 /\ IsIsoDateTime(SubSeq(raw, 1, 19))
             THEN SubSeq(raw, 1, 10) \o <<84>> \o SubSeq(raw, 12, 19)
                      \o <<43, 48, 48, 58, 48, 48>>
             ELSE IF n = 25 /\ IsIsoDateTime(SubSeq(raw, 1, 19))
                          /\ IsUtcOffset(SubSeq(raw, 20, 25))
             THEN SubSeq(raw, 1, 10) \o <<84>> \o SubSeq(raw, 12, 25)
             ELSE IF IsDmyDateTime(raw)
             THEN SubSeq(raw, 7, 10) \o <<45>> \o SubSeq(raw, 4, 5) \o <<45>>
                      \o SubSeq(raw, 1, 2) \o <<84>> \o SubSeq(raw, 12, 19)
             ELSE None

\* DataParser._extract_exported_at.  A datetime is identified with its
\* isoformat() text; now is datetime.utcnow().
_extract_exported_at(raw, now) ==
    LET date_value == Or(Or(raw.date, raw.exported_at), raw.date_range_to)
        parsed == _safe_iso_date(date_value)
    IN  IF Truthy(parsed) THEN parsed ELSE now

\* models.py: IdentityRecord.  has_channel is "None" or "True"; bio is never set.
IdentityRecord(identifier, username, full_name, registered_at, has_channel) ==
    [ identifier |-> identifier, username |-> username, full_name |-> full_name,
      bio |-> None, registered_at |-> registered_at, has_channel |-> has_channel ]

\* models.py: ParsedData
ParsedData(exported_at, participants, mentions, channels) ==
    [ exported_at |-> exported_at, participants |-> participants,
      mentions |-> mentions, channels |-> channels ]

\* DataParser._records_from_handles
_records_from_handles(handles, assume_channel) ==
    LET order == Sorted(handles)
    IN  [ i \in 1..Len(order) |->
            LET handle == order[i]
            IN  IdentityRecord(
                    Lower(handle),
                    IF StartsWith(handle, <<64>>) THEN handle ELSE None,
                    IF StartsWith(handle, <<64>>) THEN None ELSE handle,
                    None,
                    IF assume_channel THEN "True" ELSE "None") ]

\* Position of identifier among the keys of a dict, 0 when absent.
KeyIndex(d, identifier) ==
    IF \E i \in 1..Len(d) : d[i].identifier = identifier
    THEN CHOOSE i \in 1..Len(d) : d[i].identifier = identifier
    ELSE 0

\* The mention / channel handles one message adds (text scan, then entities).
MessageHandles(message) ==
    LET scanned == _extract_mentions(_stringify_text(message))
        entities == Range(_extract_entities(message))
    IN  [ mentions |-> scanned.mentions
                         \cup {e \in entities : StartsWith(e, <<64>>)},
          channels |-> scanned.channels
                         \cup {e \in entities : ~StartsWith(e, <<64>>)} ]

\* The author recording with the date update left out: a sender already
\* recorded keeps the date of the first message.
RecordAuthorFirstDate(authors, message, sender) ==
    LET username == _extract_username(message)
        identifier == _build_identifier(
                          username, Or(Or(message.from_id, message.actor_id), <<>>), sender)
    IN  IF KeyIndex(authors, identifier) = 0
        THEN Append(authors, IdentityRecord(identifier, username, sender,
                                            _safe_iso_date(message.date), "None"))
        ELSE authors

\* The authors dict after the sender of one message is recorded.
RecordAuthor(authors, message, sender) ==
    LET username == _extract_username(message)
        identifier == _build_identifier(
                          username, Or(Or(message.from_id, message.actor_id), <<>>), sender)
        msg_date == _safe_iso_date(message.date)
        k == KeyIndex(authors, identifier)
    IN  IF Truthy(identifier) /\ k = 0
        THEN Append(authors, IdentityRecord(identifier, username, sender, msg_date, "None"))
        ELSE IF Truthy(identifier)
        THEN IF Truthy(msg_date)
                  /\ (~Truthy(authors[k].registered_at)
                        \/ StrLess(msg_date, authors[k].registered_at))
             THEN [authors EXCEPT ![k].registered_at = msg_date]
             ELSE authors
        ELSE authors

\* One iteration of the loop over messages in DataParser._parse_json; acc is
\* (authors, mentions, channels).
ParseMessage(acc, message) ==
    IF ~message.isdict THEN acc
    ELSE IF message.type \notin {"None", "message", "service"} THEN acc
    ELSE LET sender == Or(message.from, message.actor)
         IN  IF _is_deleted(sender) THEN acc
             ELSE LET handles == MessageHandles(message)
                  IN  [ authors |-> RecordAuthor(acc.authors, message, sender),
                        mentions |-> acc.mentions \cup handles.mentions,
                        channels |-> acc.channels \cup handles.channels ]

RECURSIVE ParseMessages(_, _)
ParseMessages(acc, messages) ==
    IF messages = <<>> THEN acc
    ELSE ParseMessages(ParseMessage(acc, Head(messages)), Tail(messages))

\* What a call returns or raises.
Returned(data) == [kind |-> "ok", exc |-> "", data |-> data]
Raised(exc) == [kind |-> "raise", exc |-> exc, data |-> <<>>]
ReturnedNone == [kind |-> "none", exc |-> "", data |-> <<>>]
NotCalled == [kind |-> "not called", exc |-> "", data |-> <<>>]

\* DataParser._parse_json.  payload is the parsed view of the bytes:
\* encoding "utf8" or "invalid"; json "invalid", "object" or "other" (a list,
\* a scalar, null); messages_kind "absent", "list", "str" (iterable, no dict
\* in it) or "null" (not iterable).
_parse_json(payload, now) ==
    IF payload.encoding # "utf8" \/ payload.json = "invalid" THEN Raised("ValueError")
    ELSE IF payload.json # "object" THEN Raised("AttributeError")
    ELSE IF payload.messages_kind = "null" THEN Raised("TypeError")
    ELSE LET messages == IF payload.messages_kind = "list" THEN payload.messages ELSE <<>>
             acc == ParseMessages([authors |-> <<>>, mentions |-> {}, channels |-> {}],
                                  messages)
         IN  Returned(ParsedData(_extract_exported_at(payload, now),
                                 acc.authors,
                                 _records_from_handles(acc.mentions, FALSE),
                                 _records_from_handles(acc.channels, TRUE)))

\* ".json"
JSON_SUFFIX == <<46, 106, 115, 111, 110>>

\* DataParser.parse (reached through DataProcessor.parse_document).
parse(file_name, payload, now) ==
    IF EndsWith(Lower(Or(file_name, <<>>)), JSON_SUFFIX) THEN _parse_json(payload, now)
    ELSE IF payload.brace THEN _parse_json(payload, now)
    ELSE ReturnedNone

\* ------------------------------------------------------------------------
\* models.py: SessionData
\* ------------------------------------------------------------------------

\* SessionData(): the three dicts empty, the counters zero.
SessionData ==
    [ participants |-> <<>>, mentions |-> <<>>, channels |-> <<>>,
      files_processed |-> 0, last_exported_at |-> None, files_received |-> 0 ]

\* One of the three loops of SessionData.merge: the dict after the records are
\* registered, and how many were new.
RECURSIVE MergeRecords(_, _, _)
MergeRecords(d, records, count) ==
    IF records = <<>> THEN [dict |-> d, count |-> count]
    ELSE LET record == Head(records)
         IN  IF KeyIndex(d, record.identifier) = 0
             THEN MergeRecords(Append(d, record), Tail(records), count + 1)
             ELSE MergeRecords(d, Tail(records), count)

\* The loop with the membership test dropped: every record is stored under its
\* identifier and counted.
RECURSIVE StoreRecords(_, _, _)
StoreRecords(d, records, count) ==
    IF records = <<>> THEN [dict |-> d, count |-> count]
    ELSE LET record == Head(records)
             k == KeyIndex(d, record.identifier)
         IN  StoreRecords(IF k = 0 THEN Append(d, record) ELSE [d EXCEPT ![k] = record],
                          Tail(records), count + 1)

merge_overwriting(self, parsed) ==
    LET p == StoreRecords(self.participants, parsed.participants, 0)
        m == StoreRecords(self.mentions, parsed.mentions, 0)
        c == StoreRecords(self.channels, parsed.channels, 0)
    IN  [ session |-> [ self EXCEPT !.participants = p.dict,
                                    !.mentions = m.dict,
                                    !.channels = c.dict,
                                    !.files_processed = @ + 1,
                                    !.last_exported_at = parsed.exported_at ],
          counters |-> [participants |-> p.count, mentions |-> m.count,
                        channels |-> c.count] ]

\* The loop re-minimizing registered_at: a record whose identifier is already
\* held lowers the held registered_at to its own when that is earlier.
RECURSIVE MinimizeRecords(_, _, _)
MinimizeRecords(d, records, count) ==
    IF records = <<>> THEN [dict |-> d, count |-> count]
    ELSE LET record == Head(records)
             k == KeyIndex(d, record.identifier)
         IN  IF k = 0
             THEN MinimizeRecords(Append(d, record), Tail(records), count + 1)
             ELSE IF Truthy(record.registered_at)
                       /\ (~Truthy(d[k].registered_at)
                             \/ StrLess(record.registered_at, d[k].registered_at))
             THEN MinimizeRecords([d EXCEPT ![k].registered_at = record.registered_at],
                                  Tail(records), count)
             ELSE MinimizeRecords(d, Tail(records), count)

merge_minimizing(self, parsed) ==
    LET p == MinimizeRecords(self.participants, parsed.participants, 0)
        m == MinimizeRecords(self.mentions, parsed.mentions, 0)
        c == MinimizeRecords(self.channels, parsed.channels, 0)
    IN  [ session |-> [ self EXCEPT !.participants = p.dict,
                                    !.mentions = m.dict,
                                    !.channels = c.dict,
                                    !.files_processed = @ + 1,
                                    !.last_exported_at = parsed.exported_at ],
          counters |-> [participants |-> p.count, mentions |-> m.count,
                        channels |-> c.count] ]

\* merge counting a file and taking its timestamp only when the file brought a
\* new record.
merge_counting_new(self, parsed) ==
    LET p == MergeRecords(self.participants, parsed.participants, 0)
        m == MergeRecords(self.mentions, parsed.mentions, 0)
        c == MergeRecords(self.channels, parsed.channels, 0)
        new == p.count + m.count + c.count > 0
    IN  [ session |-> [ self EXCEPT !.participants = p.dict,
                                    !.mentions = m.dict,
                                    !.channels = c.dict,
                                    !.files_processed = IF new THEN @ + 1 ELSE @,
                                    !.last_exported_at =
                                        IF new THEN parsed.exported_at ELSE @ ],
          counters |-> [participants |-> p.count, mentions |-> m.count,
                        channels |-> c.count] ]

\* SessionData.merge: the session after the call and the counters it returns.
merge(self, parsed) ==
    LET p == MergeRecords(self.participants, parsed.participants, 0)
        m == MergeRecords(self.mentions, parsed.mentions, 0)
        c == MergeRecords(self.channels, parsed.channels, 0)
    IN  [ session |-> [ self EXCEPT !.participants = p.dict,
                                    !.mentions = m.dict,
                                    !.channels = c.dict,
                                    !.files_processed = @ + 1,
                                    !.last_exported_at = parsed.exported_at ],
          counters |-> [participants |-> p.count, mentions |-> m.count,
                        channels |-> c.count] ]

\* reset() that clears the dicts and files_processed only.
session_reset_partial(self) ==
    [ self EXCEPT !.participants = <<>>, !.mentions = <<>>, !.channels = <<>>,
                  !.files_processed = 0 ]

\* SessionData.reset
session_reset(self) ==
    [ self EXCEPT !.participants = <<>>, !.mentions = <<>>, !.channels = <<>>,
                  !.files_processed = 0, !.last_exported_at = None,
                  !.files_received = 0 ]

\* IdentityRecord._bool_to_text ("Unknown" / "Yes" / "No" in the bot's language).
_bool_to_text(value) ==
    IF value = "None" THEN "Unknown" ELSE IF value = "True" THEN "Yes" ELSE "No"

\* IdentityRecord.to_row
to_row(self, exported_at) ==
    [ export_date |-> exported_at,
      username |-> Or(self.username, <<>>),
      full_name |-> Or(self.full_name, <<>>),
      bio |-> Or(self.bio, <<>>),
      registered_at |-> Or(self.registered_at, <<>>),
      has_channel |-> _bool_to_text(self.has_channel) ]

\* models._records_to_rows: the rows in the order of dict.values().
_records_to_rows(records, exported_at) ==
    [i \in 1..Len(records) |-> to_row(records[i], exported_at)]

\* SessionData.as_rows
as_rows(self, exported_at, now) ==
    LET at == Or(Or(exported_at, self.last_exported_at), now)
    IN  [ participants |-> _records_to_rows(self.participants, at),
          mentions |-> _records_to_rows(self.mentions, at),
          channels |-> _records_to_rows(self.channels, at) ]

\* ------------------------------------------------------------------------
\* Inputs: the strings, messages, payloads and documents the model draws from
\* ------------------------------------------------------------------------

\* "Alice"
StrAlice == <<65, 108, 105, 99, 101>>

\* "Bob"
StrBob == <<66, 111, 98>>

\* "Robert"
StrRobert == <<82, 111, 98, 101, 114, 116>>

\* "Carol"
StrCarol == <<67, 97, 114, 111, 108>>

\* "Deleted Account"
StrDeleted == <<68, 101, 108, 101, 116, 101, 100, 32, 65, 99, 99, 111, 117, 110, 116>>

\* "Bob_B"
StrBobUser == <<66, 111, 98, 95, 66>>

\* "bob_b"
StrBobUserLower == <<98, 111, 98, 95, 98>>

\* "user1"
StrUser1 == <<117, 115, 101, 114, 49>>

\* "user2"
StrUser2 == <<117, 115, 101, 114, 50>>

\* "user3"
StrUser3 == <<117, 115, 101, 114, 51>>

\* "user9"
StrUser9 == <<117, 115, 101, 114, 57>>

\* "2024-01-01T10:00:00"
DateJan1 == <<50, 48, 50, 52, 45, 48, 49, 45, 48, 49, 84, 49, 48, 58, 48, 48, 58, 48, 48>>

\* "2024-01-02 10:00:00"
DateJan2 == <<50, 48, 50, 52, 45, 48, 49, 45, 48, 50, 32, 49, 48, 58, 48, 48, 58, 48, 48>>

\* "03.12.2023 12:05:00"
DateDec3 == <<48, 51, 46, 49, 50, 46, 50, 48, 50, 51, 32, 49, 50, 58, 48, 53, 58, 48, 48>>

\* "yesterday"
DateBad == <<121, 101, 115, 116, 101, 114, 100, 97, 121>>

\* "2024-02-01T00:00:00Z"
DateExport == <<50, 48, 50, 52, 45, 48, 50, 45, 48, 49, 84, 48, 48, 58, 48, 48, 58, 48, 48, 90>>

\* "2024-01-05T09:00:00+05:00"
DateEast == <<50, 48, 50, 52, 45, 48, 49, 45, 48, 53, 84, 48, 57, 58, 48, 48, 58, 48, 48, 43, 48, 53, 58, 48, 48>>

\* "2024-01-05T05:00:00Z"
DateUtc == <<50, 48, 50, 52, 45, 48, 49, 45, 48, 53, 84, 48, 53, 58, 48, 48, 58, 48, 48, 90>>

\* "Dave"
StrDave == <<68, 97, 118, 101>>

\* "user4"
StrUser4 == <<117, 115, 101, 114, 52>>

\* "2024-03-01T09:00:00"
NowA == <<50, 48, 50, 52, 45, 48, 51, 45, 48, 49, 84, 48, 57, 58, 48, 48, 58, 48, 48>>

\* "hi @Zed_01 t.me/Chan1"
TextMention == <<104, 105, 32, 64, 90, 101, 100, 95, 48, 49, 32, 116, 46, 109, 101, 47, 67, 104, 97, 110, 49>>

\* "@ab12 @Alice1"
TextShort == <<64, 97, 98, 49, 50, 32, 64, 65, 108, 105, 99, 101, 49>>

\* "@ghost1 https://T.me/Gone1"
TextGhost == <<64, 103, 104, 111, 115, 116, 49, 32, 104, 116, 116, 112, 115, 58, 47, 47, 84, 46, 109, 101, 47, 71, 111, 110, 101, 49>>

\* "see"
TextSee == <<115, 101, 101>>

\* "@Ghost2"
EntGhost == <<64, 71, 104, 111, 115, 116, 50>>

\* "@alice1"
EntAlice == <<64, 97, 108, 105, 99, 101, 49>>

\* "@Alice1"
EntAliceUpper == <<64, 65, 108, 105, 99, 101, 49>>

\* "link"
EntLink == <<108, 105, 110, 107>>

\* "https://t.me/Gone2"
HrefGone == <<104, 116, 116, 112, 115, 58, 47, 47, 116, 46, 109, 101, 47, 71, 111, 110, 101, 50>>

\* "a.json"
NameJson == <<97, 46, 106, 115, 111, 110>>

\* "B.JSON"
NameJsonUpper == <<66, 46, 74, 83, 79, 78>>

\* "c.txt"
NameText == <<99, 46, 116, 120, 116>>

\* One entry of "messages" that is a JSON object, with the fields the parser reads
\* (an absent field is None; an absent list of entities is empty).
Message(type, from, from_username, from_id, date, text, text_entities) ==
    [ isdict |-> TRUE, type |-> type, from |-> from, actor |-> None,
      from_username |-> from_username, username |-> None,
      from_id |-> from_id, actor_id |-> None, date |-> date,
      text |-> text, text_entities |-> text_entities, entities |-> <<>> ]

NoText == [kind |-> "none", s |-> <<>>, chunks |-> <<>>]
PlainText(s) == [kind |-> "str", s |-> s, chunks |-> <<>>]
RichText(chunks) == [kind |-> "list", s |-> <<>>, chunks |-> chunks]
Entity(text, href) == [text |-> text, href |-> href, url |-> None]

MsgBobLate ==
    Message("message", StrBob, StrBobUser, StrUser2, DateJan2, PlainText(TextMention), <<>>)
MsgBobEarly ==
    Message("message", StrBob, StrBobUser, StrUser2, DateDec3, NoText, <<>>)
MsgRobert ==
    Message("None", StrRobert, StrBobUserLower, StrUser2, DateJan1, NoText, <<>>)
MsgAlice ==
    Message("message", StrAlice, None, StrUser1, DateJan1,
            RichText(<<[kind |-> "str", s |-> TextSee], [kind |-> "dict", s |-> TextShort]>>),
            <<>>)
MsgCarol ==
    Message("message", StrCarol, None, StrUser3, DateBad, NoText,
            <<Entity(EntAlice, None), Entity(EntLink, HrefGone)>>)
MsgCarolDated ==
    Message("message", StrCarol, None, StrUser3, DateJan1, NoText, <<>>)
MsgAliceSpan ==
    Message("message", StrAlice, None, StrUser1, DateJan1, PlainText(TextShort),
            <<Entity(EntAliceUpper, None)>>)
\* "@Bob"
EntBobUpper == <<64, 66, 111, 98>>

MsgCarolSpan ==
    Message("message", StrCarol, None, StrUser3, DateJan1, NoText,
            <<Entity(EntBobUpper, None), Entity(EntAlice, None)>>)
MsgDaveEast ==
    Message("message", StrDave, None, StrUser4, DateEast, NoText, <<>>)
MsgDaveUtc ==
    Message("message", StrDave, None, StrUser4, DateUtc, NoText, <<>>)
MsgDeleted ==
    Message("message", StrDeleted, None, StrUser9, DateJan1, PlainText(TextGhost),
            <<Entity(EntGhost, None), Entity(EntLink, HrefGone)>>)
MsgPoll ==
    Message("poll", StrCarol, None, StrUser3, DateJan1, PlainText(TextMention), <<>>)
MsgService ==
    [ Message("service", None, None, None, DateDec3, NoText, <<>>)
        EXCEPT !.actor = StrAlice, !.actor_id = StrUser1 ]
MsgNotDict ==
    [ Message("None", None, None, None, None, NoText, <<>>) EXCEPT !.isdict = FALSE ]

\* The parsed view of a payload (see _parse_json).
Payload(encoding, brace, json, date, messages_kind, messages) ==
    [ encoding |-> encoding, brace |-> brace, json |-> json,
      date |-> date, exported_at |-> None, date_range_to |-> None,
      messages_kind |-> messages_kind, messages |-> messages ]

JsonObject(date, messages) == Payload("utf8", TRUE, "object", date, "list", messages)

PayloadNotUtf8 == Payload("invalid", FALSE, "invalid", None, "absent", <<>>)
PayloadNotJson == Payload("utf8", TRUE, "invalid", None, "absent", <<>>)
PayloadJsonList == Payload("utf8", FALSE, "other", None, "absent", <<>>)
PayloadNoMessages == Payload("utf8", TRUE, "object", DateExport, "absent", <<>>)
PayloadNullMessages == Payload("utf8", TRUE, "object", None, "null", <<>>)

\* Export files whose extraction results the session specification merges.
FileBobAlice == JsonObject(DateExport, <<MsgBobLate, MsgAlice>>)
FileBobCarol == JsonObject(None, <<MsgBobEarly, MsgCarol>>)
FileCarolAlice == JsonObject(DateJan2, <<MsgCarol, MsgService, MsgDeleted>>)
FileRobert == JsonObject(None, <<MsgRobert, MsgPoll, MsgNotDict, MsgCarolDated>>)

SessionFiles ==
    {FileBobAlice, FileBobCarol, FileCarolAlice, FileRobert, PayloadNoMessages}

\* The extraction results of those files.
ResultPool == {parse(NameJson, f, NowA).data : f \in SessionFiles}

\* Settings.max_size: the default, in bytes.
max_size == 10485760

\* The documents users send to the bot: what the transport declares (file name,
\* size) and the id under which the bytes are fetched.
Document(file_name, file_size, file_id) ==
    [file_name |-> file_name, file_size |-> file_size, file_id |-> file_id]

FileAlice == JsonObject(None, <<MsgAlice>>)

\* FileManager.fetch_file_bytes: the bytes each file id downloads as.
fetch_file_bytes(file_id) ==
    CASE file_id = "bad" -> PayloadNotJson
      [] file_id = "empty" -> PayloadNoMessages
      [] file_id = "one" -> FileAlice
      [] file_id = "two" -> FileCarolAlice

DocBad == Document(NameJson, 2048, "bad")
DocEmpty == Document(NameJsonUpper, max_size, "empty")
DocOne == Document(NameJson, 2048, "one")
DocTwo == Document(NameJson, 4096, "two")
DocText == Document(NameText, 2048, "one")
DocBig == Document(NameJson, max_size + 1, "one")
DocNoName == Document(None, 2048, "one")

\* The file_size of a document the transport declares no size for (None).
SizeNone == -1

DocNoSize == Document(NameJson, SizeNone, "one")

Documents ==
    {DocBad, DocEmpty, DocOne, DocTwo, DocText, DocBig, DocNoName, DocNoSize}

\* The values datetime.utcnow() takes.
Clock == {NowA}

\* DataProcessor.parse_document(doc.file_name, payload), payload being the bytes
\* fetch_file_bytes returns for doc.file_id.
parse_document(document, now) ==
    parse(document.file_name, fetch_file_bytes(document.file_id), now)

\* ------------------------------------------------------------------------
\* config.py, file_manager.py and the helpers of bot_handler.py
\* ------------------------------------------------------------------------

\* FileManager.is_supported
is_supported(document) ==
    IF ~Truthy(document.file_name) THEN FALSE
    ELSE EndsWith(Lower(document.file_name), JSON_SUFFIX)

\* "без имени" (the inline label of a participant with no name)
StrNoName == <<1073, 1077, 1079, 32, 1080, 1084, 1077, 1085, 1080>>

\* BotHandler._format_label
_format_label(record) ==
    IF Truthy(record.username)
    THEN record.username \o <<32, 40>> \o Or(record.full_name, StrNoName) \o <<41>>
    ELSE Or(record.full_name, record.identifier)

\* The key of rows.sort in _send_inline_response.
InlineKey(rec) == Lower(Or(Or(rec.username, rec.full_name), <<>>))

\* list.sort(key=...): stable, ascending.
RECURSIVE SortByKey(_)
SortByKey(rows) ==
    IF rows = <<>> THEN <<>>
    ELSE LET rest == SortByKey(SubSeq(rows, 1, Len(rows) - 1))
             rec == rows[Len(rows)]
             before == {i \in DOMAIN rest : ~StrLess(InlineKey(rec), InlineKey(rest[i]))}
             k == IF before = {} THEN 0 ELSE CHOOSE i \in before : \A j \in before : j <= i
         IN  SubSeq(rest, 1, k) \o <<rec>> \o SubSeq(rest, k + 1, Len(rest))

\* BotHandler._send_inline_response: the labels of the numbered lines, in order.
_send_inline_response(session) ==
    LET rows == SortByKey(session.participants)
    IN  [i \in DOMAIN rows |-> _format_label(rows[i])]

\* BotHandler._send_excel: the tables handed to the workbook builder.
_send_excel(session, now) == as_rows(session, None, now)

\* The loop of BotHandler._run_parser_job from document i on: the session after
\* it, the positions of the documents merged, and the exception that ended it
\* ("" when it ran to the end).
RECURSIVE ParseAndMerge(_, _, _, _, _)

\* The rest of one iteration once parse_document has returned or raised:
\* session.merge(parsed) and the next document.  merge(None) raises
\* AttributeError.
MergeParsed(session, docs, i, merged, now, parsed) ==
    IF parsed.kind = "raise"
    THEN [session |-> session, merged |-> merged, exc |-> parsed.exc]
    ELSE IF parsed.kind = "none"
    THEN [session |-> session, merged |-> merged, exc |-> "AttributeError"]
    ELSE ParseAndMerge(merge(session, parsed.data).session, docs, i + 1,
                       Append(merged, i), now)

ParseAndMerge(session, docs, i, merged, now) ==
    IF i > Len(docs) THEN [session |-> session, merged |-> merged, exc |-> ""]
    ELSE MergeParsed(session, docs, i, merged, now, parse_document(docs[i], now))

\* BotHandler._run_parser_job
_run_parser_job(session, group_data, now) ==
    LET all_docs == [i \in DOMAIN group_data.messages |-> group_data.messages[i].document]
    IN  ParseAndMerge(session, all_docs, 1, <<>>, now)

\* export with the inline test made inclusive (total <= threshold).
ExportReplyInclusive(total, files_received, threshold) ==
    IF total = 0 /\ files_received > 0 THEN "empty"
    ELSE IF total <= threshold THEN "inline"
    ELSE "excel"

\* The branch BotHandler.export takes after the batch is merged: the
\* empty-result notice, the inline text or the spreadsheet.
ExportReply(total, files_received, threshold) ==
    IF total = 0 /\ files_received > 0 THEN "empty"
    ELSE IF total < threshold THEN "inline"
    ELSE "excel"

Users == {"u1", "u2"}
Chats == {"c1"}

\* ------------------------------------------------------------------------
\* Bounds
\* ------------------------------------------------------------------------

\* Documents in one pending batch.
MaxBatch == 2

\* files_received of one session.
MaxReceived == 2

\* files_processed of one session.
MaxProcessed == 1

\* Notification tasks alive whose batch was deleted.
MaxOrphans == 1

\* The inline threshold the bot is configured with.
Threshold == 2

\* Merges into the session under test between two resets.
MaxMerges == 3

\* Messages in one export file of the parser specification.
MaxMsgs == 2

\* ------------------------------------------------------------------------
\* State
\* ------------------------------------------------------------------------

VARIABLES
    \* The bot.
    settings,       \* Settings
    sessions,       \* BotHandler.sessions: user id -> SessionData
    chat_data,      \* context.chat_data[BATCH_KEY] of each chat
    orphans,        \* per chat, the unfinished notification tasks no batch refers to
    last,           \* what the last handler or task step did and replied
    \* The session specification: one SessionData object and its calls.
    sessionData,    \* the object
    mergedSoFar,    \* the results merged since the last reset, in order
    sessionBefore,  \* the object before the last call
    lastCall,       \* "new", "merge" or "reset"
    returned,       \* what the last merge returned
    \* The parser specification: one call of DataParser.parse.
    fileName, payload, utcnow,
    identifierCall, \* the arguments of one call of _build_identifier and its result
    outcome         \* NotCalled, or what the call returned or raised

sessionVars == <<sessionData, mergedSoFar, sessionBefore, lastCall, returned>>
parserVars == <<fileName, payload, utcnow, outcome, identifierCall>>
botVars == <<settings, sessions, chat_data, orphans, last>>
vars == <<botVars, sessionVars, parserVars>>

\* Settings.min_inline_response: the default.
min_inline_response == 50

\* context.chat_data without BATCH_KEY.
NoBatch == [present |-> FALSE, messages |-> <<>>, task |-> "None", first_message |-> <<>>]

NoOutput ==
    [ kind |-> "none", lines |-> <<>>,
      tables |-> [participants |-> <<>>, mentions |-> <<>>, channels |-> <<>>] ]

\* Nothing done yet.
NoLast ==
    [ op |-> "none", user |-> "", chat |-> "", replies |-> <<>>, exc |-> "",
      docs |-> <<>>, merged |-> <<>>, total |-> 0, received |-> 0,
      output |-> NoOutput, dirty |-> [merged |-> FALSE, received |-> FALSE] ]

\* BotHandler.__init__ with the given inline threshold: no session (a session is
\* created empty on first use, so every user starts with SessionData()), no
\* batch, no task.
BotInit(threshold) ==
    /\ settings = [max_size |-> max_size, min_inline_response |-> threshold]
    /\ sessions = [u \in Users |-> SessionData]
    /\ chat_data = [c \in Chats |-> NoBatch]
    /\ orphans = [c \in Chats |-> [pending |-> 0, sending |-> 0]]
    /\ last = NoLast

NoCounters == [participants |-> 0, mentions |-> 0, channels |-> 0]

SessionInit ==
    /\ sessionData = SessionData
    /\ mergedSoFar = <<>>
    /\ sessionBefore = SessionData
    /\ lastCall = "new"
    /\ returned = NoCounters

\* No call of _build_identifier made.
NoIdentifierCall ==
    [username |-> None, fallback |-> <<>>, full_name |-> None, identifier |-> None]

ParserIdle ==
    /\ fileName = NameJson
    /\ payload = PayloadNoMessages
    /\ utcnow = NowA
    /\ outcome = NotCalled
    /\ identifierCall = NoIdentifierCall

\* ------------------------------------------------------------------------
\* The session specification: merge and reset called on one SessionData
\* ------------------------------------------------------------------------

CallMerge(parsed) ==
    /\ Len(mergedSoFar) < MaxMerges
    /\ LET r == merge(sessionData, parsed)
       IN  /\ sessionData' = r.session
           /\ returned' = r.counters
    /\ mergedSoFar' = Append(mergedSoFar, parsed)
    /\ sessionBefore' = sessionData
    /\ lastCall' = "merge"
    /\ UNCHANGED <<parserVars, botVars>>

CallReset ==
    /\ sessionData' = session_reset(sessionData)
    /\ mergedSoFar' = <<>>
    /\ sessionBefore' = sessionData
    /\ lastCall' = "reset"
    /\ returned' = NoCounters
    /\ UNCHANGED <<parserVars, botVars>>

SessionNext ==
    \/ \E parsed \in ResultPool : CallMerge(parsed)
    \/ CallReset

InitSession == BotInit(min_inline_response) /\ SessionInit /\ ParserIdle

SpecSession == InitSession /\ [][SessionNext]_vars

\* ------------------------------------------------------------------------
\* Properties of SessionData (checked under SpecSession)
\* ------------------------------------------------------------------------

Categories == {"participants", "mentions", "channels"}

Keys(d) == {d[i].identifier : i \in DOMAIN d}

\* The record a dict holds under an identifier it has.
RecordOf(d, identifier) == d[KeyIndex(d, identifier)]

\* A session's three dicts as mappings, insertion order left out (dict equality).
Maps(self) == [cat \in Categories |-> Range(self[cat])]

\* The session that merging the results in order into a new session gives.
RECURSIVE Replay(_, _)
Replay(self, results) ==
    IF results = <<>> THEN self
    ELSE Replay(merge(self, Head(results)).session, Tail(results))

\* The merged results with the last two exchanged.
SwapLastTwo(h) ==
    LET n == Len(h) IN SubSeq(h, 1, n - 2) \o <<h[n], h[n - 1]>>

\* The record the first of the results carrying the identifier carries for it.
RECURSIVE FirstCarried(_, _, _)
FirstCarried(results, cat, identifier) ==
    IF identifier \in Keys(Head(results)[cat])
    THEN RecordOf(Head(results)[cat], identifier)
    ELSE FirstCarried(Tail(results), cat, identifier)

\* Every registered_at the results carry for the identifier.
CarriedDates(results, cat, identifier) ==
    UNION { { results[i][cat][j].registered_at :
                j \in {k \in DOMAIN results[i][cat] :
                          results[i][cat][k].identifier = identifier} } :
            i \in DOMAIN results }

\* The minimum of the dates carried, None when none carries a date.
MinCarried(results, cat, identifier) ==
    LET dates == {d \in CarriedDates(results, cat, identifier) : Truthy(d)}
    IN  IF dates = {} THEN None
        ELSE CHOOSE d \in dates : \A e \in dates : ~StrLess(e, d)

\* The last two results merged (R1 then R2), and the session they were merged into.
LastR1 == mergedSoFar[Len(mergedSoFar) - 1]
LastR2 == mergedSoFar[Len(mergedSoFar)]
StartSession == Replay(SessionData, SubSeq(mergedSoFar, 1, Len(mergedSoFar) - 2))

\* R1 and R2 both carry the identifier, with different records.
Contested(cat, identifier) ==
    /\ identifier \in Keys(LastR1[cat]) \cap Keys(LastR2[cat])
    /\ RecordOf(LastR1[cat], identifier) # RecordOf(LastR2[cat], identifier)

\* C3 as stated: merge(R1) then merge(R2) leaves the same three maps (keys and
\* record field values) as merge(R2) then merge(R1).
C3_MergeOrderIndependent ==
    Len(mergedSoFar) >= 2 =>
        Maps(sessionData) = Maps(Replay(SessionData, SwapLastTwo(mergedSoFar)))

\* C3 amended: merge(R1) then merge(R2) leaves the same keys in the three maps as
\* merge(R2) then merge(R1), and the same record under every identifier that the
\* starting session already held or that R1 and R2 do not both carry with
\* different field values.
C3_MergeOrderIndependentKeys ==
    Len(mergedSoFar) >= 2 =>
        LET other == Replay(SessionData, SwapLastTwo(mergedSoFar))
        IN  \A cat \in Categories :
                /\ Keys(sessionData[cat]) = Keys(other[cat])
                /\ \A identifier \in Keys(sessionData[cat]) :
                       (identifier \in Keys(StartSession[cat]) \/ ~Contested(cat, identifier))
                           => RecordOf(sessionData[cat], identifier)
                                  = RecordOf(other[cat], identifier)

\* C3 witness: two different results were merged one after the other, both
\* carrying an identifier the starting session did not hold, with different
\* records, and both carrying one the starting session held.
C3_Witness ==
    /\ Len(mergedSoFar) >= 3
    /\ lastCall = "merge"
    /\ \E identifier \in Keys(sessionData.participants) :
           /\ Contested("participants", identifier)
           /\ identifier \notin Keys(StartSession.participants)
    /\ \E identifier \in Keys(StartSession.participants) :
           Contested("participants", identifier)

\* C4: merging the same extraction result a second time leaves the three maps
\* exactly as they were after the first merge and returns zero new entries for
\* every category.
C4_MergeTwiceIdempotent ==
    (lastCall = "merge" /\ Len(mergedSoFar) >= 2 /\ LastR1 = LastR2) =>
        /\ \A cat \in Categories : sessionData[cat] = sessionBefore[cat]
        /\ returned = NoCounters

\* C4 witness: a result with records in all three categories was merged twice in
\* a row, the first time adding new participants.
C4_Witness ==
    /\ lastCall = "merge"
    /\ Len(mergedSoFar) >= 2
    /\ LastR1 = LastR2
    /\ \A cat \in Categories : LastR2[cat] # <<>>
    /\ Keys(LastR2.participants) \ Keys(StartSession.participants) # {}

\* C6 as stated: the registered_at of each identity in the session is the minimum
\* of the registered_at values carried for its identifier by the results merged.
C6_RegisteredAtIsMinimum ==
    \A cat \in Categories :
        \A i \in DOMAIN sessionData[cat] :
            sessionData[cat][i].registered_at
                = MinCarried(mergedSoFar, cat, sessionData[cat][i].identifier)

\* C6 amended: the registered_at of each identity in the session is the one
\* carried for its identifier by the first merged result that carried it (not the
\* minimum over the results merged), and a merge leaves the registered_at of every
\* identity already held as it was, so it never increases.
C6_RegisteredAtIsFirstSeen ==
    /\ \A cat \in Categories :
           \A i \in DOMAIN sessionData[cat] :
               sessionData[cat][i].registered_at
                   = FirstCarried(mergedSoFar, cat, sessionData[cat][i].identifier).registered_at
    /\ lastCall = "merge" =>
           \A cat \in Categories :
               \A identifier \in Keys(sessionBefore[cat]) :
                   /\ identifier \in Keys(sessionData[cat])
                   /\ RecordOf(sessionData[cat], identifier).registered_at
                          = RecordOf(sessionBefore[cat], identifier).registered_at

\* C6 witness: a later merged result carried, for an identity already in the
\* session, an earlier registered_at than the one the session holds.
C6_Witness ==
    /\ lastCall = "merge"
    /\ \E i \in DOMAIN sessionData.participants :
           LET rec == sessionData.participants[i]
           IN  /\ rec.identifier \in Keys(sessionBefore.participants)
               /\ rec.identifier \in Keys(LastR2.participants)
               /\ Truthy(rec.registered_at)
               /\ StrLess(RecordOf(LastR2.participants, rec.identifier).registered_at,
                          rec.registered_at)

\* The sort key of a row: (username or full_name or "").lower().
RowKey(row) == Lower(Or(Or(row.username, row.full_name), <<>>))

RowsSorted(rows) ==
    \A i, j \in DOMAIN rows : i < j => ~StrLess(RowKey(rows[j]), RowKey(rows[i]))

\* C10: the rows as_rows returns for participants and for mentions are ordered by
\* the lowercased (username or full_name or "") of their records.
C10_RowsSortedByLabel ==
    LET tables == as_rows(sessionData, None, NowA)
    IN  RowsSorted(tables.participants) /\ RowsSorted(tables.mentions)

\* ------------------------------------------------------------------------
\* The parser specification: one call of DataParser.parse on a bounded input
\* ------------------------------------------------------------------------

MessagePool ==
    { MsgBobLate, MsgBobEarly, MsgRobert, MsgAlice, MsgCarol, MsgCarolDated,
      MsgAliceSpan, MsgCarolSpan, MsgDaveEast, MsgDaveUtc, MsgDeleted, MsgPoll,
      MsgService, MsgNotDict }

\* The sequences over S of length at most n.
SeqsUpTo(S, n) == UNION {[1..k -> S] : k \in 0..n}

ParserPayloads ==
    {PayloadNotUtf8, PayloadNotJson, PayloadJsonList, PayloadNoMessages, PayloadNullMessages}
        \cup {JsonObject(date, messages) :
                date \in {None, DateExport}, messages \in SeqsUpTo(MessagePool, MaxMsgs)}

FileNames == {NameJson, NameJsonUpper, NameText, None}

InitParser ==
    /\ BotInit(min_inline_response)
    /\ SessionInit
    /\ fileName \in FileNames
    /\ payload \in ParserPayloads
    /\ utcnow = NowA
    /\ outcome = NotCalled
    /\ identifierCall = NoIdentifierCall

CallParse ==
    /\ outcome = NotCalled
    /\ outcome' = parse(fileName, payload, utcnow)
    /\ UNCHANGED <<fileName, payload, utcnow, identifierCall, sessionVars, botVars>>

ParserNext == CallParse

SpecParser == InitParser /\ [][ParserNext]_vars

\* The handles of the mention and channel records of an extraction result.
MentionHandles(data) == {data.mentions[i].username : i \in DOMAIN data.mentions}
ChannelHandles(data) == {data.channels[i].full_name : i \in DOMAIN data.channels}

\* The messages of the payload the loop does not skip for their shape or type.
ScannedMessages ==
    { m \in Range(payload.messages) :
        m.isdict /\ m.type \in {"None", "message", "service"} }

\* C2: a message whose sender name contains a deleted-account marker adds no
\* participant record, but the handles and t.me links of its text and entity
\* spans are still added to the file's mention and channel sets.
C2_DeletedSenderStillScanned ==
    outcome.kind = "ok" =>
        \A m \in ScannedMessages :
            _is_deleted(Or(m.from, m.actor)) =>
                /\ \A i \in DOMAIN outcome.data.participants :
                       outcome.data.participants[i].full_name # Or(m.from, m.actor)
                /\ MessageHandles(m).mentions \subseteq MentionHandles(outcome.data)
                /\ MessageHandles(m).channels \subseteq ChannelHandles(outcome.data)

\* Whether the payload is UTF-8 JSON text whose top level is a mapping.
IsJsonMapping(p) == p.encoding = "utf8" /\ p.json = "object"

\* C7: parse has exactly two outcomes for every payload, an extraction result or
\* the format error; a payload that is not UTF-8 JSON, or that is JSON without the
\* top-level mapping shape, gives the format error; a JSON mapping without a
\* messages field gives an empty valid result.
C7_ParseResultOrFormatError ==
    outcome # NotCalled =>
        /\ outcome.kind = "ok" \/ (outcome.kind = "raise" /\ outcome.exc = "ValueError")
        /\ ~IsJsonMapping(payload) =>
               (outcome.kind = "raise" /\ outcome.exc = "ValueError")
        /\ (IsJsonMapping(payload) /\ payload.messages_kind = "absent") =>
               /\ outcome.kind = "ok"
               /\ outcome.data.participants = <<>>
               /\ outcome.data.mentions = <<>>
               /\ outcome.data.channels = <<>>

\* The sender of a message, and the identifier the parser builds for it.
SenderOf(m) == Or(m.from, m.actor)

IdentifierOf(m) ==
    _build_identifier(_extract_username(m), Or(Or(m.from_id, m.actor_id), <<>>),
                      SenderOf(m))

\* A message of an admitted type whose sender is not a deleted account.
Counted(m) ==
    /\ m.isdict
    /\ m.type \in {"None", "message", "service"}
    /\ ~_is_deleted(SenderOf(m))

\* The identifiers of the counted messages, each once, in the order of their
\* first message.
RECURSIVE FirstEncounters(_, _)
FirstEncounters(messages, seen) ==
    IF messages = <<>> THEN <<>>
    ELSE LET m == Head(messages)
         IN  IF Counted(m) /\ IdentifierOf(m) \notin seen
             THEN <<IdentifierOf(m)>>
                      \o FirstEncounters(Tail(messages), seen \cup {IdentifierOf(m)})
             ELSE FirstEncounters(Tail(messages), seen)

\* The parseable dates of the counted messages of one identifier, as ISO texts.
DatesOf(identifier) ==
    { _safe_iso_date(m.date) :
        m \in {x \in Range(payload.messages) :
                  Counted(x) /\ IdentifierOf(x) = identifier} } \ {None}

\* The UTC offset of an ISO text in minutes (0 when it carries none).
OffsetMinutes(iso) ==
    IF Len(iso) = 25
    THEN (IF iso[20] = 45 THEN -1 ELSE 1) * (Num2(iso, 21) * 60 + Num2(iso, 24))
    ELSE 0

\* The instant of an ISO text in minutes, a date without offset read as UTC.
\* Months are counted as 31 days, which keeps the order of instants of the
\* same month.
InstantMinutes(iso) ==
    (((Num2(iso, 1) * 100 + Num2(iso, 3)) * 12 + Num2(iso, 6)) * 31 + Num2(iso, 9)) * 1440
        + Num2(iso, 12) * 60 + Num2(iso, 15) - OffsetMinutes(iso)

\* a is an earlier instant than b.
Earlier(a, b) ==
    \/ InstantMinutes(a) < InstantMinutes(b)
    \/ InstantMinutes(a) = InstantMinutes(b) /\ Num2(a, 18) < Num2(b, 18)

\* The participants are the first encounters, in order; date(i, D) says what
\* the registered_at of record i is among the dates D of its identifier.
OneRecordPerSender(Date(_, _)) ==
    LET order == FirstEncounters(payload.messages, {})
        participants == outcome.data.participants
    IN  /\ Len(participants) = Len(order)
        /\ \A i \in DOMAIN participants :
               /\ participants[i].identifier = order[i]
               /\ Date(participants[i].registered_at, DatesOf(order[i]))

\* d is the earliest instant of D (None when D is empty).
IsEarliest(d, D) ==
    IF D = {} THEN d = None ELSE d \in D /\ \A e \in D : ~Earlier(e, d)

\* d is the least of D in string order (None when D is empty), which is the
\* earliest instant when the dates of D carry one and the same offset.
IsLeastText(d, D) ==
    IF D = {} THEN d = None
    ELSE /\ d \in D
         /\ \A e \in D : ~StrLess(e, d)
         /\ (\A a, b \in D : OffsetMinutes(a) = OffsetMinutes(b) /\ Len(a) = Len(b))
                => \A e \in D : ~Earlier(e, d)

\* C11 as stated: parsing one file yields exactly one participant record per
\* distinct identifier of a non-deleted sender, in first-encounter order, and
\* the registered_at of each record is the earliest parseable date among the
\* messages of that sender, whatever the order of the messages.
C11_RegisteredAtIsEarliestInstant ==
    outcome.kind = "ok" => OneRecordPerSender(IsEarliest)

\* C11 amended: one record per distinct identifier in first-encounter order,
\* whose registered_at is the least ISO text, in string order, among the
\* parseable dates of the sender's messages: the earliest date when those dates
\* carry the same UTC offset.
C11_RegisteredAtIsLeastIsoText ==
    outcome.kind = "ok" => OneRecordPerSender(IsLeastText)

\* A file of two messages of one sender, the later date first: the record
\* carries the date of the second message.
C11_Witness ==
    /\ outcome.kind = "ok"
    /\ Len(payload.messages) = 2
    /\ Counted(payload.messages[1]) /\ Counted(payload.messages[2])
    /\ IdentifierOf(payload.messages[1]) = IdentifierOf(payload.messages[2])
    /\ StrLess(_safe_iso_date(payload.messages[2].date),
               _safe_iso_date(payload.messages[1].date))
    /\ Len(outcome.data.participants) = 1
    /\ outcome.data.participants[1].registered_at
           = _safe_iso_date(payload.messages[2].date)

\* No two records of the list share an identifier.
DistinctIdentifiers(records) ==
    \A i, j \in DOMAIN records :
        i # j => records[i].identifier # records[j].identifier

\* C12: in the extraction result of one file no two records of the mentions
\* list share an identifier and no two records of the channels list do, whether
\* a handle came from the text scan or from an entity span and whatever its
\* letter case.
C12_HandlesDeduplicated ==
    outcome.kind = "ok" =>
        /\ DistinctIdentifiers(outcome.data.mentions)
        /\ DistinctIdentifiers(outcome.data.channels)

\* ------------------------------------------------------------------------
\* The identifier specification: one call of DataParser._build_identifier
\* ------------------------------------------------------------------------

\* "@Bob_B"
StrAtBob == <<64, 66, 111, 98, 95, 66>>

\* "@ЁЖ_77"
StrAtCyrillic == <<64, 1025, 1046, 95, 55, 55>>

\* "Ёж Ёжов"
StrCyrillicName == <<1025, 1078, 32, 1025, 1078, 1086, 1074>>

\* "ID7"
StrIdUpper == <<73, 68, 55>>

\* The usernames _normalize_username hands over: None or a handle with its @.
IdentifierUsernames == {None, StrAtBob, StrAtCyrillic}

\* The fallback ids: str(from_id or actor_id or ""), never None.
IdentifierFallbacks == {<<>>, StrUser1, StrIdUpper}

\* The sender names: None, empty or a name.
IdentifierFullNames == {None, <<>>, StrAlice, StrCyrillicName, StrDeleted}

InitIdentifier ==
    /\ BotInit(min_inline_response)
    /\ SessionInit
    /\ fileName = NameJson
    /\ payload = PayloadNoMessages
    /\ utcnow = NowA
    /\ outcome = NotCalled
    /\ identifierCall \in
           { [username |-> u, fallback |-> f, full_name |-> n, identifier |-> None] :
               u \in IdentifierUsernames \cup {<<>>},
               f \in IdentifierFallbacks \cup {None},
               n \in IdentifierFullNames }

CallBuildIdentifier ==
    /\ identifierCall.identifier = None
    /\ identifierCall' =
           [identifierCall EXCEPT
               !.identifier = _build_identifier(identifierCall.username,
                                                identifierCall.fallback,
                                                identifierCall.full_name)]
    /\ UNCHANGED <<fileName, payload, utcnow, outcome, sessionVars, botVars>>

IdentifierNext == CallBuildIdentifier

SpecIdentifier == InitIdentifier /\ [][IdentifierNext]_vars

\* An argument is present when it is neither None nor empty.
Present(s) == s # None /\ s # <<>>

\* "unknown"
StrUnknown == <<117, 110, 107, 110, 111, 119, 110>>

\* C13: _build_identifier returns the lowercased username when a username is
\* present; otherwise fallback id + ":" + lowercased full name (or empty) when
\* a fallback id is present; otherwise the lowercased full name; otherwise the
\* literal "unknown".
C13_BuildIdentifierPriority ==
    identifierCall.identifier # None =>
        LET username == identifierCall.username
            fallback == identifierCall.fallback
            full_name == identifierCall.full_name
            lowered == IF Present(full_name) THEN Lower(full_name) ELSE <<>>
        IN  identifierCall.identifier =
                IF Present(username) THEN Lower(username)
                ELSE IF Present(fallback) THEN fallback \o <<58>> \o lowered
                ELSE IF Present(full_name) THEN lowered
                ELSE StrUnknown

\* A call with no username, a fallback id with capitals and a Cyrillic name.
C13_Witness ==
    /\ identifierCall.identifier # None
    /\ ~Present(identifierCall.username)
    /\ identifierCall.fallback = StrIdUpper
    /\ identifierCall.full_name = StrCyrillicName
    /\ identifierCall.identifier = StrIdUpper \o <<58>> \o Lower(StrCyrillicName)

\* ------------------------------------------------------------------------
\* The bot specification: the handlers of bot_handler.py and the notification
\* tasks.  The application handles one update at a time, so a handler is one
\* step; a notification task runs between handlers, up to its await and then to
\* its end.  Every update carries a user and a message.
\* ------------------------------------------------------------------------

\* A task that has neither finished nor been cancelled.
Alive(task) == task \in {"pending", "sending"}

\* Deleting the batch of a chat leaves its task, when alive, running with no
\* batch referring to it.
CanDeleteBatch(c) ==
    Alive(chat_data[c].task) =>
        orphans[c].pending + orphans[c].sending < MaxOrphans

OrphansAfterDelete(c) ==
    IF chat_data[c].task = "pending" THEN [orphans EXCEPT ![c].pending = @ + 1]
    ELSE IF chat_data[c].task = "sending" THEN [orphans EXCEPT ![c].sending = @ + 1]
    ELSE orphans

Did(op, u, c, replies) ==
    [NoLast EXCEPT !.op = op, !.user = u, !.chat = c, !.replies = replies]

\* The body shared by BotHandler.start and BotHandler.reset: the batch of the
\* chat is deleted and the session of the user reset.
ClearSessionAndBatch(u, c) ==
    /\ CanDeleteBatch(c)
    /\ chat_data' = [chat_data EXCEPT ![c] = NoBatch]
    /\ orphans' = OrphansAfterDelete(c)
    /\ sessions' = [sessions EXCEPT ![u] = session_reset(@)]
    /\ UNCHANGED <<settings, sessionVars, parserVars>>

\* What the session of the user held when the handler started.
Held(u) ==
    [ merged |-> sessions[u].files_processed > 0 /\ sessions[u].participants # <<>>,
      received |-> sessions[u].files_received > 0 ]

\* BotHandler.start
start(u, c) ==
    /\ ClearSessionAndBatch(u, c)
    /\ last' = [Did("start", u, c, <<"greeting">>) EXCEPT !.dirty = Held(u)]

\* BotHandler.reset
reset(u, c) ==
    /\ ClearSessionAndBatch(u, c)
    /\ last' = [Did("reset", u, c, <<"session cleared">>) EXCEPT !.dirty = Held(u)]

\* BotHandler.help_command
help_command(u, c) ==
    /\ last' = Did("help", u, c, <<"help">>)
    /\ UNCHANGED <<settings, sessions, chat_data, orphans, sessionVars, parserVars>>

\* handle_document parsing and merging the document as it arrives.
handle_document_merging(u, c, document) ==
    LET message == [document |-> document]
        parsed == parse_document(document, NowA)
        group_data ==
            IF chat_data[c].present THEN chat_data[c]
            ELSE [ present |-> TRUE, messages |-> <<>>, task |-> "None",
                   first_message |-> message ]
    IN  /\ is_supported(document)
        /\ document.file_size <= settings.max_size
        /\ parsed.kind = "ok"
        /\ Len(group_data.messages) < MaxBatch
        /\ sessions[u].files_received < MaxReceived
        /\ sessions[u].files_processed < MaxProcessed
        /\ chat_data' =
               [chat_data EXCEPT ![c] =
                   [ group_data EXCEPT
                       !.messages = Append(@, message),
                       !.task = "pending" ]]
        /\ sessions' =
               [sessions EXCEPT ![u] =
                   [merge(@, parsed.data).session EXCEPT !.files_received = @ + 1]]
        /\ last' = Did("document", u, c, <<>>)
        /\ UNCHANGED <<settings, orphans, sessionVars, parserVars>>

\* handle_document without the size gate.
handle_document_any_size(u, c, document) ==
    LET message == [document |-> document]
        group_data ==
            IF chat_data[c].present THEN chat_data[c]
            ELSE [ present |-> TRUE, messages |-> <<>>, task |-> "None",
                   first_message |-> message ]
    IN  /\ is_supported(document)
        /\ Len(group_data.messages) < MaxBatch
        /\ sessions[u].files_received < MaxReceived
        /\ chat_data' =
               [chat_data EXCEPT ![c] =
                   [ group_data EXCEPT
                       !.messages = Append(@, message),
                       !.task = "pending" ]]
        /\ sessions' = [sessions EXCEPT ![u].files_received = @ + 1]
        /\ last' = Did("document", u, c, <<>>)
        /\ UNCHANGED <<settings, orphans, sessionVars, parserVars>>

\* BotHandler.handle_document
handle_document(u, c, document) ==
    LET message == [document |-> document]
    IN  /\ IF ~is_supported(document)
           THEN /\ last' = Did("document", u, c, <<"unsupported">>)
                /\ UNCHANGED <<sessions, chat_data>>
           ELSE IF document.file_size = SizeNone
           THEN \* None > int raises TypeError and the handler ends
                /\ last' = [Did("document", u, c, <<>>) EXCEPT !.exc = "TypeError"]
                /\ UNCHANGED <<sessions, chat_data>>
           ELSE IF document.file_size > settings.max_size
           THEN /\ last' = Did("document", u, c, <<"too big">>)
                /\ UNCHANGED <<sessions, chat_data>>
           ELSE LET group_data ==
                        IF chat_data[c].present THEN chat_data[c]
                        ELSE [ present |-> TRUE, messages |-> <<>>, task |-> "None",
                               first_message |-> message ]
                IN  /\ Len(group_data.messages) < MaxBatch
                    /\ sessions[u].files_received < MaxReceived
                    /\ chat_data' =
                           [chat_data EXCEPT ![c] =
                               [ group_data EXCEPT
                                   !.messages = Append(@, message),
                                   !.task = "pending" ]]
                    /\ sessions' = [sessions EXCEPT ![u].files_received = @ + 1]
                    /\ last' = Did("document", u, c, <<>>)
        /\ UNCHANGED <<settings, orphans, sessionVars, parserVars>>

\* _finalize_and_process_batch deleting the batch it reports.
_finalize_deleting_batch(c) ==
    /\ chat_data[c].present
    /\ chat_data[c].task = "pending"
    /\ chat_data' = [chat_data EXCEPT ![c] = NoBatch]
    /\ last' = [NoLast EXCEPT !.op = "notify", !.chat = c,
                              !.replies = <<"batch received">>,
                              !.total = Len(chat_data[c].messages)]
    /\ UNCHANGED <<settings, sessions, orphans, sessionVars, parserVars>>

\* BotHandler._finalize_and_process_batch, the task the batch refers to, from
\* its start to the await of the notification.
_finalize_and_process_batch(c) ==
    /\ chat_data[c].present
    /\ chat_data[c].task = "pending"
    /\ chat_data' = [chat_data EXCEPT ![c].task = "sending"]
    /\ last' = [NoLast EXCEPT !.op = "notify", !.chat = c,
                              !.replies = <<"batch received">>,
                              !.total = Len(chat_data[c].messages)]
    /\ UNCHANGED <<settings, sessions, orphans, sessionVars, parserVars>>

\* The notification is sent and the task ends.
NotificationSent(c) ==
    /\ chat_data[c].present
    /\ chat_data[c].task = "sending"
    /\ chat_data' = [chat_data EXCEPT ![c].task = "done"]
    /\ last' = [NoLast EXCEPT !.op = "notified", !.chat = c]
    /\ UNCHANGED <<settings, sessions, orphans, sessionVars, parserVars>>

\* _finalize_and_process_batch run by a task whose batch was deleted: it
\* returns when the chat has no batch, and else reports the batch that is there.
OrphanTaskRuns(c) ==
    /\ orphans[c].pending > 0
    /\ IF chat_data[c].present
       THEN /\ orphans' = [orphans EXCEPT ![c].pending = @ - 1, ![c].sending = @ + 1]
            /\ last' = [NoLast EXCEPT !.op = "notify", !.chat = c,
                                      !.replies = <<"batch received">>,
                                      !.total = Len(chat_data[c].messages)]
       ELSE /\ orphans' = [orphans EXCEPT ![c].pending = @ - 1]
            /\ last' = [NoLast EXCEPT !.op = "notified", !.chat = c]
    /\ UNCHANGED <<settings, sessions, chat_data, sessionVars, parserVars>>

OrphanNotificationSent(c) ==
    /\ orphans[c].sending > 0
    /\ orphans' = [orphans EXCEPT ![c].sending = @ - 1]
    /\ last' = [NoLast EXCEPT !.op = "notified", !.chat = c]
    /\ UNCHANGED <<settings, sessions, chat_data, sessionVars, parserVars>>

\* BotHandler.export from the return of _run_parser_job (job) on.
ExportAfterJob(u, c, now, group_data, job) ==
    LET session == job.session
        total == Len(session.participants)
        files_received == session.files_received
        reply == ExportReply(total, files_received, settings.min_inline_response)
        ran == [ Did("export", u, c, <<"processing">>) EXCEPT
                   !.docs = [i \in DOMAIN group_data.messages |->
                                group_data.messages[i].document],
                   !.merged = job.merged,
                   !.exc = job.exc ]
    IN  /\ IF job.exc # ""
           THEN \* the exception leaves the handler: nothing after the loop runs
                /\ session.files_processed <= MaxProcessed
                /\ sessions' = [sessions EXCEPT ![u] = session]
                /\ last' = ran
                /\ UNCHANGED <<chat_data, orphans>>
           ELSE /\ CanDeleteBatch(c)
                /\ chat_data' = [chat_data EXCEPT ![c] = NoBatch]
                /\ orphans' = OrphansAfterDelete(c)
                /\ sessions' = [sessions EXCEPT ![u] = session_reset(session)]
                /\ last' =
                       [ ran EXCEPT
                           !.replies = Append(@, reply),
                           !.total = total,
                           !.received = files_received,
                           !.output =
                               IF reply = "inline"
                               THEN [NoOutput EXCEPT
                                       !.kind = "inline",
                                       !.lines = _send_inline_response(session)]
                               ELSE IF reply = "excel"
                               THEN [NoOutput EXCEPT
                                       !.kind = "excel",
                                       !.tables = _send_excel(session, now)]
                               ELSE NoOutput ]
        /\ UNCHANGED <<settings, sessionVars, parserVars>>

\* BotHandler.export
export(u, c, now) ==
    IF ~chat_data[c].present
    THEN /\ last' = Did("export", u, c, <<"no files">>)
         /\ UNCHANGED <<settings, sessions, chat_data, orphans, sessionVars, parserVars>>
    ELSE ExportAfterJob(u, c, now, chat_data[c],
                        _run_parser_job(sessions[u], chat_data[c], now))

Init ==
    /\ BotInit(Threshold)
    /\ SessionInit
    /\ ParserIdle

Next ==
    \/ \E u \in Users, c \in Chats : start(u, c)
    \/ \E u \in Users, c \in Chats : help_command(u, c)
    \/ \E u \in Users, c \in Chats : reset(u, c)
    \/ \E u \in Users, c \in Chats, document \in Documents : handle_document(u, c, document)
    \/ \E u \in Users, c \in Chats, now \in Clock : export(u, c, now)
    \/ \E c \in Chats : _finalize_and_process_batch(c)
    \/ \E c \in Chats : NotificationSent(c)
    \/ \E c \in Chats : OrphanTaskRuns(c)
    \/ \E c \in Chats : OrphanNotificationSent(c)

Spec == Init /\ [][Next]_vars

\* ------------------------------------------------------------------------
\* Properties of the bot specification
\* ------------------------------------------------------------------------

\* Whether DataProcessor.parse_document returns an extraction result for the
\* document.
Parseable(document) == parse_document(document, NowA).kind = "ok"

\* The last step was an /export that found a pending batch.
ExportedBatch == last.op = "export" /\ last.docs # <<>>

\* C1: during one /export over a batch of several files, every parseable file
\* of the batch is merged and no file that fails to parse is, wherever the
\* malformed file stands in the batch.
C1_MalformedFileIsolated ==
    (ExportedBatch /\ Len(last.docs) >= 2) =>
        \A i \in DOMAIN last.docs :
            Parseable(last.docs[i]) <=> i \in Range(last.merged)

\* C5: after /reset the session of the user is empty (the three maps empty,
\* files_processed and files_received zero, last_exported_at unset) whatever
\* was merged and received before, and reset() once more changes nothing.
C5_ResetClearsSession ==
    last.op = "reset" =>
        LET session == sessions[last.user]
        IN  /\ session.participants = <<>>
            /\ session.mentions = <<>>
            /\ session.channels = <<>>
            /\ session.files_processed = 0
            /\ session.files_received = 0
            /\ session.last_exported_at = None
            /\ session_reset(session) = session

\* A /reset of a session that held merged participants and received documents.
C5_Witness ==
    /\ last.op = "reset"
    /\ last.dirty.merged
    /\ last.dirty.received

\* Whether the document parses to an extraction result with no participant.
YieldsNoParticipants(document) ==
    LET parsed == parse_document(document, NowA)
    IN  parsed.kind = "ok" /\ parsed.data.participants = <<>>

\* C8: whenever a file of the exported batch parses but yields zero
\* participants, the export, once the whole batch is processed, sends the
\* empty-result notice and resets the session.
C8_EmptyFileGivesNotice ==
    ( /\ ExportedBatch
      /\ last.exc = ""
      /\ \E i \in DOMAIN last.docs : YieldsNoParticipants(last.docs[i]) ) =>
        /\ last.replies = <<"processing", "empty">>
        /\ sessions[last.user] = SessionData

\* C9: on an export whose session holds total >= 1 participants after the
\* batch is merged, the output is the inline text when total < threshold and
\* the spreadsheet when total >= threshold, exactly one of the two; with the
\* default threshold 49 gives the inline text and 50 the spreadsheet.
C9_ThresholdSelectsOutput ==
    /\ \A files_received \in 0..MaxReceived :
           /\ ExportReply(min_inline_response - 1, files_received,
                          min_inline_response) = "inline"
           /\ ExportReply(min_inline_response, files_received,
                          min_inline_response) = "excel"
    /\ (ExportedBatch /\ last.exc = "" /\ last.total >= 1) =>
           IF last.total < settings.min_inline_response
           THEN /\ last.replies = <<"processing", "inline">>
                /\ last.output.kind = "inline"
                /\ Len(last.output.lines) = last.total
           ELSE /\ last.replies = <<"processing", "excel">>
                /\ last.output.kind = "excel"
                /\ Len(last.output.tables.participants) = last.total

\* An export whose total is exactly the threshold, at least 2: the spreadsheet.
C9_Witness ==
    /\ ExportedBatch
    /\ last.exc = ""
    /\ last.total >= 2
    /\ last.total = settings.min_inline_response
    /\ last.output.kind = "excel"

\* The notification tasks of a chat that are neither finished nor cancelled:
\* the one its batch refers to and those of deleted batches.
TasksAlive(c) ==
    orphans[c].pending + orphans[c].sending
        + (IF Alive(chat_data[c].task) THEN 1 ELSE 0)

\* C14: under any interleaving of document arrivals, /reset, /start, /export
\* and task steps, an accepted document cancels every unfinished notification
\* task scheduled earlier for the chat, so at most one task that is neither
\* cancelled nor finished exists per chat.
C14_AtMostOneTaskAlive ==
    \A c \in Chats : TasksAlive(c) <= 1

\* C15: every /export that finds a pending batch ends, on every path, with the
\* pending batch of the chat removed and the session of the exporting user
\* reset.
C15_ExportClearsBatchAndSession ==
    ExportedBatch =>
        /\ ~chat_data[last.chat].present
        /\ sessions[last.user] = SessionData

\* ------------------------------------------------------------------------
\* Further properties of the session specification
\* ------------------------------------------------------------------------

\* The result the last merge was given.
LastMerged == mergedSoFar[Len(mergedSoFar)]

\* C16: merge is append-only per identifier: between two resets no merge
\* removes an identifier a map holds or changes a field of its record, and a
\* later result carrying the identifier is dropped whole.
C16_MergeAppendOnly ==
    /\ lastCall = "merge" =>
           \A cat \in Categories :
               /\ \A i \in DOMAIN sessionBefore[cat] :
                      /\ i \in DOMAIN sessionData[cat]
                      /\ sessionData[cat][i] = sessionBefore[cat][i]
               /\ Keys(sessionData[cat])
                      = Keys(sessionBefore[cat]) \cup Keys(LastMerged[cat])
    /\ \A cat \in Categories :
           \A identifier \in Keys(sessionData[cat]) :
               RecordOf(sessionData[cat], identifier)
                   = FirstCarried(mergedSoFar, cat, identifier)

\* A merge of a result that carries, with other field values, an identifier
\* the session already held.
C16_Witness ==
    /\ lastCall = "merge"
    /\ \E identifier \in Keys(sessionBefore.participants)
                            \cap Keys(LastMerged.participants) :
           RecordOf(LastMerged.participants, identifier)
               # RecordOf(sessionBefore.participants, identifier)

\* C20: every merge(R), one that inserts no new record included, increases
\* files_processed by exactly 1 and sets last_exported_at to the exported_at
\* of R, so last_exported_at is the timestamp of the last merged result.
C20_MergeCountsAndStampsLast ==
    /\ lastCall = "merge" =>
           /\ sessionData.files_processed = sessionBefore.files_processed + 1
           /\ sessionData.last_exported_at = LastMerged.exported_at
    /\ sessionData.files_processed = Len(mergedSoFar)

\* A third merge that inserts nothing, of a result whose timestamp is neither
\* the earliest nor the latest merged.
C20_Witness ==
    /\ lastCall = "merge"
    /\ returned = NoCounters
    /\ \E i, j \in 1..(Len(mergedSoFar) - 1) :
           /\ StrLess(mergedSoFar[i].exported_at, LastMerged.exported_at)
           /\ StrLess(LastMerged.exported_at, mergedSoFar[j].exported_at)
    /\ sessionData.last_exported_at = LastMerged.exported_at

\* ------------------------------------------------------------------------
\* Further properties of the bot specification
\* ------------------------------------------------------------------------

\* C17: in every reachable state of every session files_processed is at most
\* files_received, under any sequence of document arrivals, exports (aborted
\* and repeated ones included), resets, and users sharing a chat.
C17_ProcessedAtMostReceived ==
    \A u \in Users : sessions[u].files_processed <= sessions[u].files_received

\* What the session holds besides files_received.
Merged(session) == [session EXCEPT !.files_received = 0]

\* The step was the arrival of a document: an accepted one adds 1 to the
\* files_received of the sender and appends the message to the batch of the
\* chat, a rejected one changes neither.
ArrivalOnlyCounts ==
    last'.op = "document" =>
        /\ \A u \in Users : Merged(sessions'[u]) = Merged(sessions[u])
        /\ IF last'.replies = <<>> /\ last'.exc = ""
           THEN /\ \A u \in Users :
                       sessions'[u].files_received
                           = sessions[u].files_received
                                 + (IF u = last'.user THEN 1 ELSE 0)
                /\ \A c \in Chats \ {last'.chat} : chat_data'[c] = chat_data[c]
                /\ Len(chat_data'[last'.chat].messages)
                       = Len(chat_data[last'.chat].messages) + 1
                /\ SubSeq(chat_data'[last'.chat].messages, 1,
                          Len(chat_data[last'.chat].messages))
                       = chat_data[last'.chat].messages
           ELSE sessions' = sessions /\ chat_data' = chat_data

\* The step was a step of a notification task: no session changes.
NotificationLeavesSessions ==
    last'.op \in {"notify", "notified"} => sessions' = sessions

\* What parse_document returns for each document, at the clock's one reading.
ParseResults == [d \in Documents |-> parse_document(d, NowA)]

\* The export `ran` merged the first k documents of its batch into `session`.
MergedInOrder(ran, docs, k, session, after) ==
    /\ ran.merged = [i \in 1..k |-> i]
    /\ IF ran.exc # ""
       THEN /\ k < Len(docs)
            /\ ParseResults[docs[k + 1]].kind # "ok"
            /\ after = session
       ELSE /\ k = Len(docs)
            /\ ran.total = Len(session.participants)
            /\ ran.output.kind = "excel" =>
                   ran.output.tables = as_rows(session, None, NowA)

\* The step was an /export over a batch: the documents are parsed and merged
\* one after another in batch order, up to the first that fails.
ExportMergesInOrder ==
    (last'.op = "export" /\ last'.docs # <<>>) =>
        LET docs == last'.docs
            k == Len(last'.merged)
        IN  /\ \A i \in 1..k : ParseResults[docs[i]].kind = "ok"
            /\ \A session \in
                      {Replay(sessions[last'.user],
                              [i \in 1..k |-> ParseResults[docs[i]].data])} :
                   MergedInOrder(last', docs, k, session, sessions'[last'.user])

\* C18: only /export parses and merges: the arrival of a document and the
\* steps of the batch notification leave the three maps, files_processed and
\* last_exported_at of every session unchanged (an accepted arrival changes
\* only files_received and the pending batch), and within one export the files
\* of the batch are fetched, parsed and merged one after another in batch
\* order.
C18_OnlyExportMerges ==
    [][ArrivalOnlyCounts /\ NotificationLeavesSessions /\ ExportMergesInOrder]_vars

\* An export that merged two different documents and sent the spreadsheet,
\* whose rows keep the order of merging.
C18_Witness ==
    /\ ExportedBatch
    /\ last.merged = <<1, 2>>
    /\ last.docs[1] # last.docs[2]
    /\ last.output.kind = "excel"
    /\ Len(last.output.tables.participants) = 2

\* The pending batch held by the chat data `data`, its task left out.
PendingBatch(data) ==
    [ present |-> data.present, messages |-> data.messages,
      first_message |-> data.first_message ]

\* C19: a batch-notification task, run to its end or cancelled at any point,
\* never removes or alters the pending batch of its chat (the message list and
\* the first message stay as they were); the batch is cleared only by /reset,
\* /start or /export.
C19_NotificationKeepsBatch ==
    [][\A c \in Chats :
          /\ last'.op \in {"notify", "notified"} =>
                 PendingBatch(chat_data'[c]) = PendingBatch(chat_data[c])
          /\ (chat_data[c].present /\ ~chat_data'[c].present) =>
                 (last'.op \in {"start", "reset", "export"} /\ last'.chat = c)
          /\ (chat_data[c].present /\ chat_data'[c].present) =>
                 /\ chat_data'[c].first_message = chat_data[c].first_message
                 /\ \/ chat_data'[c].messages = chat_data[c].messages
                    \/ /\ last'.op = "document"
                       /\ last'.chat = c
                       /\ Len(chat_data'[c].messages) = Len(chat_data[c].messages) + 1
                       /\ SubSeq(chat_data'[c].messages, 1, Len(chat_data[c].messages))
                              = chat_data[c].messages]_vars

\* A notification task has run to its end and the batch of two messages it
\* reported is still pending.
C19_Witness ==
    /\ last.op = "notified"
    /\ chat_data[last.chat].present
    /\ chat_data[last.chat].task = "done"
    /\ Len(chat_data[last.chat].messages) = 2
    /\ chat_data[last.chat].first_message = chat_data[last.chat].messages[1]

\* The document passes the two gates of handle_document: a file name ending in
\* .json whatever the case of its letters, and a declared size not above the
\* configured maximum.
HasJsonName(document) ==
    /\ document.file_name # None
    /\ Len(document.file_name) >= 5
    /\ LET n == Len(document.file_name)
           ext == SubSeq(document.file_name, n - 4, n)
       IN  /\ ext[1] = 46
           /\ ext[2] \in {74, 106}
           /\ ext[3] \in {83, 115}
           /\ ext[4] \in {79, 111}
           /\ ext[5] \in {78, 110}

HasAllowedSize(document) ==
    document.file_size # SizeNone /\ document.file_size <= settings.max_size

PassesGates(document) == HasJsonName(document) /\ HasAllowedSize(document)

\* Every document of every pending batch, and every document an export has
\* fetched and parsed, passes the gates.
BatchesGated ==
    /\ \A c \in Chats : \A i \in DOMAIN chat_data[c].messages :
           PassesGates(chat_data[c].messages[i].document)
    /\ last.op = "export" =>
           \A i \in DOMAIN last.docs : PassesGates(last.docs[i])

\* A step that handles a document failing a gate changes no batch, no task,
\* no session.
RejectedChangesNothing ==
    last'.op = "document" =>
        \A document \in {d \in Documents : ~PassesGates(d)} :
            handle_document(last'.user, last'.chat, document) =>
                /\ chat_data' = chat_data
                /\ sessions' = sessions
                /\ orphans' = orphans

\* C21: every document held in a pending batch has a file name ending in .json
\* (case-insensitive) and a declared size not above the configured maximum; a
\* document that fails either gate leaves the pending batch, the session
\* (files_received included) and the scheduled notification task unchanged, so
\* no export fetches or parses it.
C21_OnlyGatedDocumentsBatched ==
    []BatchesGated /\ [][RejectedChangesNothing]_vars

\* A document above the maximum size was just turned away from a chat whose
\* batch holds an upper-case B.JSON of exactly the maximum size and whose
\* notification task is still scheduled.
C21_Witness ==
    /\ last.op = "document"
    /\ last.replies = <<"too big">>
    /\ chat_data[last.chat].present
    /\ chat_data[last.chat].task = "pending"
    /\ \E i \in DOMAIN chat_data[last.chat].messages :
           chat_data[last.chat].messages[i].document = DocEmpty
    /\ sessions[last.user].files_received = 1

\* ------------------------------------------------------------------------
\* Further properties of the parser specification
\* ------------------------------------------------------------------------

\* The records stand in ascending lexicographic order of their identifiers.
AscendingIdentifiers(records) ==
    \A i, j \in DOMAIN records :
        i < j => ~StrLess(records[j].identifier, records[i].identifier)

\* C22: in the extraction result of one file the mentions list and the
\* channels list are each in ascending lexicographic order of the canonical
\* (lowercase) identifier of their records, for handles from free text and
\* from entity spans alike.
C22_HandlesSortedByIdentifier ==
    outcome.kind = "ok" =>
        /\ AscendingIdentifiers(outcome.data.mentions)
        /\ AscendingIdentifiers(outcome.data.channels)

====
